---- MODULE Spec2Model ----
(***************************************************************************)
(* Model of front-end/src/utils/api.js: the shared request executor        *)
(* fetchJson and the eleven exported operations built on it.               *)
(*                                                                         *)
(* A call is one invocation of an exported operation.  It is suspended at  *)
(* two places, `await fetch(url, options)` and `await response.json()`;    *)
(* everything between two suspension points runs as one step.              *)
(***************************************************************************)
EXTENDS Integers, Sequences, FiniteSets, TLC

VARIABLES
    pc,            \* per call: "idle", "fetch" (awaiting fetch), "json" (awaiting response.json()), "done"
    op,            \* per call: the exported operation invoked
    arg,           \* per call: its arguments
    request,       \* per call: the request handed to fetch (url, method, headers, body)
    signal,        \* per call: whether the caller's AbortSignal has fired
    response,      \* per call: the Response fetch resolved with
    jsonCalled,    \* per call: whether response.json() was invoked
    raised,        \* per call: the error the transport raised into fetchJson's try block
    outcome,       \* per call: how the promise returned to the caller settled
    log,           \* console.error output, in order
    headers,       \* the module-level Headers object
    API_BASE_URL   \* the module-level base URL

vars == <<pc, op, arg, request, signal, response, jsonCalled, raised, outcome,
          log, headers, API_BASE_URL>>

----------------------------------------------------------------------------
(* Bounds *)

NumCalls == 2     \* calls that may be in flight together
MaxLen == 1       \* longest `data` array a response carries

Calls == 1 .. NumCalls

----------------------------------------------------------------------------
(* JavaScript values *)

Undefined == [type |-> "undefined"]
Null == [type |-> "null"]
None == [type |-> "none"]                        \* a slot of the model not yet filled
Str(s) == [type |-> "string", chars |-> s]
Obj(fields) == [type |-> "object", fields |-> fields]
EmptyObject == [type |-> "object", empty |-> TRUE]     \* {}
Arr(items) == [type |-> "array", items |-> items]
EmptyArray == Arr(<<>>)                                  \* []

\* Boolean coercion of `payload.error`
Truthy(v) == v \notin {Undefined, Null, Str("")}

\* `${x}` of an optional numeric property
TemplateStr(o, k) == IF k \in DOMAIN o THEN ToString(o[k]) ELSE "undefined"

\* JSON.stringify / the decoding done by response.json()
Stringify(v) == [present |-> TRUE, text |-> "json", json |-> v]
NoBody == [present |-> FALSE]
NotJsonBody == [present |-> TRUE, text |-> "<html>"]
IsJson(body) == body.present /\ body.text = "json"
Parse(body) == body.json

----------------------------------------------------------------------------
(* Records of the backend *)

RawDate == [ymd |-> "2023-01-01", rest |-> "T00:00:00.000Z"]
ShortDate == [ymd |-> "2023-01-01", rest |-> ""]
RawTime == [hm |-> "10:30", rest |-> ":00"]
ShortTime == [hm |-> "10:30", rest |-> ""]

StoredReservations ==
    [reservation_id : {1}, reservation_date : {RawDate, ShortDate},
     reservation_time : {RawTime, ShortTime}]

NewReservation == [mobile_number |-> "555"]
SavedReservation == [mobile_number |-> "555", reservation_id |-> 1]
NewTable == [table_name |-> "Bar"]
SavedTable == [table_name |-> "Bar", table_id |-> 5]

SeqsUpTo(S, n) == UNION {[1 .. k -> S] : k \in 0 .. n}

----------------------------------------------------------------------------
(* The exported operations and the arguments they are called with *)

Num(n) == [type |-> "number", n |-> n]
ToStringJs(v) == IF v.type = "number" THEN ToString(v.n) ELSE v.chars

Reads == {"searchByPhone", "readReservation", "listTables", "readTableByReservation"}
Writes == {"createReservation", "seatReservation", "updateReservation",
           "updateReservationStatus", "createTable", "finishTable"}
Ops == {"listReservations"} \cup Reads \cup Writes

DateParam == <<"date", Str("2023-01-01")>>
PeopleParam == <<"people", Num(2)>>

Args(o) ==
    CASE o = "listReservations" -> [params : {<<DateParam>>, <<DateParam, PeopleParam>>}]
      [] o = "searchByPhone" -> [mobile_number : {"555", "800"}]
      [] o = "createReservation" -> [reservation : {NewReservation, SavedReservation}]
      [] o = "readReservation" -> [reservation_id : {1, 2}]
      [] o = "seatReservation" -> [reservation_id : {1}, table : {SavedTable, NewTable}]
      [] o = "updateReservation" -> [reservation : {SavedReservation, NewReservation}]
      [] o = "updateReservationStatus" -> [reservation_id : {1}, status : {"seated", "finished"}]
      [] o = "listTables" -> [noargs : {TRUE}]
      [] o = "createTable" -> [table : {NewTable, SavedTable}]
      [] o = "readTableByReservation" -> [reservation_id : {1, 2}]
      [] o = "finishTable" -> [table : {SavedTable, NewTable}]

\* url.searchParams.append(key, value.toString()) for each entry of params
SearchParams(params) == [i \in DOMAIN params |-> <<params[i][1], ToStringJs(params[i][2])>>]

UrlPath(o, a) ==
    CASE o = "listReservations" -> <<"reservations">>
      [] o = "searchByPhone" -> <<"reservations">>
      [] o = "createReservation" -> <<"reservations">>
      [] o = "readReservation" -> <<"reservations", ToString(a.reservation_id)>>
      [] o = "seatReservation" -> <<"tables", TemplateStr(a.table, "table_id"), "seat">>
      [] o = "updateReservation" -> <<"reservations", TemplateStr(a.reservation, "reservation_id")>>
      [] o = "updateReservationStatus" -> <<"reservations", ToString(a.reservation_id), "status">>
      [] o = "listTables" -> <<"tables">>
      [] o = "createTable" -> <<"tables">>
      [] o = "readTableByReservation" -> <<"tables", "seated", ToString(a.reservation_id)>>
      [] o = "finishTable" -> <<"tables", TemplateStr(a.table, "table_id"), "seat">>

UrlQuery(o, a) ==
    CASE o = "listReservations" -> SearchParams(a.params)
      [] o = "searchByPhone" -> << <<"mobile_number", a.mobile_number>> >>
      [] OTHER -> <<>>

Url(o, a) == [base |-> API_BASE_URL, path |-> UrlPath(o, a), query |-> UrlQuery(o, a)]

\* Method with finishTable sending PUT as seatReservation does
MethodFinishPut(o) ==
    CASE o \in {"createReservation", "createTable"} -> "POST"
      [] o \in {"seatReservation", "updateReservation", "updateReservationStatus",
                "finishTable"} -> "PUT"
      [] OTHER -> "GET"

\* options.method; fetch sends GET when the option is absent
Method(o) ==
    CASE o \in {"createReservation", "createTable"} -> "POST"
      [] o \in {"seatReservation", "updateReservation", "updateReservationStatus"} -> "PUT"
      [] o = "finishTable" -> "DELETE"
      [] OTHER -> "GET"

\* Body with the identifier dropped from a record submitted for creation
WithoutId(r) == [k \in DOMAIN r \ {"reservation_id", "table_id", "id"} |-> r[k]]
BodyWithoutIdentifier(o, a) ==
    CASE o = "createReservation" -> Stringify([data |-> WithoutId(a.reservation)])
      [] o = "seatReservation" -> Stringify([data |-> [reservation_id |-> a.reservation_id]])
      [] o = "updateReservation" -> Stringify([data |-> a.reservation])
      [] o = "updateReservationStatus" -> Stringify([data |-> [status |-> a.status]])
      [] o = "createTable" -> Stringify([data |-> WithoutId(a.table)])
      [] OTHER -> NoBody

\* options.body
Body(o, a) ==
    CASE o = "createReservation" -> Stringify([data |-> a.reservation])
      [] o = "seatReservation" -> Stringify([data |-> [reservation_id |-> a.reservation_id]])
      [] o = "updateReservation" -> Stringify([data |-> a.reservation])
      [] o = "updateReservationStatus" -> Stringify([data |-> [status |-> a.status]])
      [] o = "createTable" -> Stringify([data |-> a.table])
      [] OTHER -> NoBody

\* PassesHeaders with the headers given only alongside a body
PassesHeadersWithBody(o) == o \in Writes \ {"finishTable"}

\* options.headers: the operations whose options name the module-level headers
PassesHeaders(o) == o \in {"listReservations"} \cup Writes

RequestHeaders(o) == IF PassesHeaders(o) THEN headers ELSE <<>>

Request(o, a) ==
    [url |-> Url(o, a), method |-> Method(o), headers |-> RequestHeaders(o), body |-> Body(o, a)]

\* the third argument each operation gives fetchJson
OnCancel(o) ==
    CASE o = "listReservations" -> EmptyArray
      [] o \in Writes -> EmptyObject
      [] OTHER -> Undefined

----------------------------------------------------------------------------
(* The default export of ./format-reservation-date, imported under two names *)

IsReservation(r) == "reservation_date" \in DOMAIN r

formatDate(r) == IF IsReservation(r)
                 THEN [r EXCEPT !.reservation_date = [@ EXCEPT !.rest = ""]]
                 ELSE r

formatReservationDate(v) ==
    IF v.type = "array" THEN Arr([i \in DOMAIN v.items |-> formatDate(v.items[i])])
    ELSE IF v.type = "object" /\ "fields" \in DOMAIN v THEN Obj(formatDate(v.fields))
    ELSE v

\* `import formatReservationTime from "./format-reservation-date"`: the same default export
formatReservationTime(v) == formatReservationDate(v)

----------------------------------------------------------------------------
(* What the network can answer *)

Statuses == {200, 204, 404, 500}

ErrorFields == {Undefined, Str(""), Str("Reservation not found")}

DataValues == {Undefined, Obj(SavedReservation), Obj(SavedTable)}
              \cup {Arr(s) : s \in SeqsUpTo(StoredReservations, MaxLen)}

Envelopes == [type : {"envelope"}, error : ErrorFields, data : DataValues]
Payloads == {Null} \cup Envelopes

ResponseBodies == {NoBody, NotJsonBody} \cup {Stringify(p) : p \in Payloads}
Responses == [status : Statuses, body : ResponseBodies]

Error(name, stack) == [type |-> "error", name |-> name, stack |-> stack]
NetworkError == Error("TypeError", "TypeError: Failed to fetch")
SyntaxErr == Error("SyntaxError", "SyntaxError: Unexpected token < in JSON")
NullDeref == Error("TypeError", "TypeError: Cannot read properties of null")
AbortErr == Error("AbortError", "AbortError: The user aborted a request.")
TransportErrors == {NetworkError}

----------------------------------------------------------------------------
(* fetchJson *)

Pending == [state |-> "pending"]
Resolved(v) == [state |-> "resolved", value |-> v]
Rejected(v) == [state |-> "rejected", value |-> v]
Threw(e) == [state |-> "threw", value |-> e]

\* NoContent with the 204 test left out
NoContentNever(resp) == FALSE

\* `response.status === 204`
NoContent(resp) == resp.status = 204

\* PayloadOutcome that looks at `error` only when the status is an error status
PayloadOutcomeErrorOnBadStatus(resp, payload) ==
    IF payload = Null THEN Threw(NullDeref)
    ELSE IF resp.status >= 400 /\ Truthy(payload.error)
         THEN Rejected([type |-> "object", message |-> payload.error])
    ELSE Resolved(payload.data)

\* PayloadOutcome that rejects a status outside 200 - 399 whatever the payload
PayloadOutcomeRejectsStatus(resp, payload) ==
    IF payload = Null THEN Threw(NullDeref)
    ELSE IF Truthy(payload.error) \/ resp.status \notin 200 .. 399
         THEN Rejected([type |-> "object", message |-> payload.error])
    ELSE Resolved(payload.data)

\* the statements after `await response.json()`, for a response and its decoded payload
PayloadOutcome(resp, payload) ==
    IF payload = Null THEN Threw(NullDeref)
    ELSE IF Truthy(payload.error) THEN Rejected([type |-> "object", message |-> payload.error])
    ELSE Resolved(payload.data)

\* CatchOutcome that rethrows the abort like any other error
CatchOutcomeRethrowsAbort(error, onCancel) == Rejected(error)

\* CatchLog that logs nothing
CatchLogSilent(error, lg) == lg

\* the catch block: what the promise settles to, and what reaches the console
CatchOutcome(error, onCancel) ==
    IF error.name # "AbortError" THEN Rejected(error) ELSE Resolved(onCancel)

CatchLog(error, lg) ==
    IF error.name # "AbortError" THEN Append(lg, error.stack) ELSE lg

\* `.then(formatReservationDate).then(formatReservationTime)` of listReservations;
\* the other operations return fetchJson's promise as it is
ThenChain(o, out) ==
    IF o = "listReservations" /\ out.state = "resolved"
    THEN Resolved(formatReservationTime(formatReservationDate(out.value)))
    ELSE out

\* SignalOf with one signal shared by all calls
SignalShared(c) == \E d \in Calls : signal[d]

\* the signal handed to fetch in options.signal
SignalOf(c) == signal[c]

----------------------------------------------------------------------------
(* Steps *)

Init ==
    /\ pc = [c \in Calls |-> "idle"]
    /\ op = [c \in Calls |-> "none"]
    /\ arg = [c \in Calls |-> None]
    /\ request = [c \in Calls |-> None]
    /\ signal = [c \in Calls |-> FALSE]
    /\ response = [c \in Calls |-> None]
    /\ jsonCalled = [c \in Calls |-> FALSE]
    /\ raised = [c \in Calls |-> None]
    /\ outcome = [c \in Calls |-> Pending]
    /\ log = <<>>
    /\ headers = << <<"Content-Type", "application/json">> >>
    /\ API_BASE_URL \in {"http://localhost:5001", "https://reservations.example"}

\* an exported operation runs up to `await fetch(url, options)`
Start(c, o, a) ==
    /\ pc[c] = "idle"
    /\ op' = [op EXCEPT ![c] = o]
    /\ arg' = [arg EXCEPT ![c] = a]
    /\ request' = [request EXCEPT ![c] = Request(o, a)]
    /\ pc' = [pc EXCEPT ![c] = "fetch"]
    /\ UNCHANGED <<signal, response, jsonCalled, raised, outcome, log, headers, API_BASE_URL>>

\* the caller aborts its own AbortController while the call is in flight
Abort(c) ==
    /\ pc[c] \in {"fetch", "json"}
    /\ ~signal[c]
    /\ signal' = [signal EXCEPT ![c] = TRUE]
    /\ UNCHANGED <<pc, op, arg, request, response, jsonCalled, raised, outcome, log,
                   headers, API_BASE_URL>>

\* the catch block runs with `error` and the call settles
Caught(c, error) ==
    /\ raised' = [raised EXCEPT ![c] = error]
    /\ outcome' = [outcome EXCEPT ![c] = ThenChain(op[c], CatchOutcome(error, OnCancel(op[c])))]
    /\ log' = CatchLog(error, log)
    /\ pc' = [pc EXCEPT ![c] = "done"]

\* fetch resolves: the 204 test, then `response.json()` is called and awaited
FetchResolve(c, resp) ==
    /\ pc[c] = "fetch"
    /\ ~SignalOf(c)
    /\ response' = [response EXCEPT ![c] = resp]
    /\ IF NoContent(resp)
       THEN /\ outcome' = [outcome EXCEPT ![c] = ThenChain(op[c], Resolved(Null))]
            /\ pc' = [pc EXCEPT ![c] = "done"]
            /\ UNCHANGED jsonCalled
       ELSE /\ jsonCalled' = [jsonCalled EXCEPT ![c] = TRUE]
            /\ pc' = [pc EXCEPT ![c] = "json"]
            /\ UNCHANGED outcome
    /\ UNCHANGED <<op, arg, request, signal, raised, log, headers, API_BASE_URL>>

\* fetch rejects with a network failure
FetchReject(c, error) ==
    /\ pc[c] = "fetch"
    /\ ~SignalOf(c)
    /\ Caught(c, error)
    /\ UNCHANGED <<op, arg, request, signal, response, jsonCalled, headers, API_BASE_URL>>

\* fetch rejects because the signal fired
FetchAbort(c) ==
    /\ pc[c] = "fetch"
    /\ SignalOf(c)
    /\ Caught(c, AbortErr)
    /\ UNCHANGED <<op, arg, request, signal, response, jsonCalled, headers, API_BASE_URL>>

\* response.json() resolves: the error test and the return
JsonResolve(c) ==
    /\ pc[c] = "json"
    /\ ~SignalOf(c)
    /\ IsJson(response[c].body)
    /\ LET out == PayloadOutcome(response[c], Parse(response[c].body)) IN
       IF out.state = "threw"
       THEN Caught(c, out.value)
       ELSE /\ outcome' = [outcome EXCEPT ![c] = ThenChain(op[c], out)]
            /\ pc' = [pc EXCEPT ![c] = "done"]
            /\ UNCHANGED <<raised, log>>
    /\ UNCHANGED <<op, arg, request, signal, response, jsonCalled, headers, API_BASE_URL>>

\* response.json() rejects: the body is not JSON
JsonReject(c) ==
    /\ pc[c] = "json"
    /\ ~SignalOf(c)
    /\ ~IsJson(response[c].body)
    /\ Caught(c, SyntaxErr)
    /\ UNCHANGED <<op, arg, request, signal, response, jsonCalled, headers, API_BASE_URL>>

\* response.json() rejects because the signal fired
JsonAbort(c) ==
    /\ pc[c] = "json"
    /\ SignalOf(c)
    /\ Caught(c, AbortErr)
    /\ UNCHANGED <<op, arg, request, signal, response, jsonCalled, headers, API_BASE_URL>>

----------------------------------------------------------------------------
(* One call, every operation, argument and answer *)

SoloCalls == {1}

Next ==
    \E c \in SoloCalls :
        \/ \E o \in Ops : \E a \in Args(o) : Start(c, o, a)
        \/ Abort(c)
        \/ \E resp \in Responses : FetchResolve(c, resp)
        \/ \E e \in TransportErrors : FetchReject(c, e)
        \/ FetchAbort(c)
        \/ JsonResolve(c)
        \/ JsonReject(c)
        \/ JsonAbort(c)

Spec == Init /\ [][Next]_vars

(* Calls in flight together, on a few operations and answers *)

ConcOps == {"listReservations", "createReservation", "readReservation"}
ConcArgs(o) == {CHOOSE a \in Args(o) : TRUE}
ConcResponses ==
    {[status |-> 200, body |-> Stringify([type |-> "envelope", error |-> Undefined,
                                          data |-> Obj(SavedReservation)])],
     [status |-> 500, body |-> Stringify([type |-> "envelope",
                                          error |-> Str("Reservation not found"),
                                          data |-> Undefined])],
     [status |-> 204, body |-> NoBody],
     [status |-> 200, body |-> NotJsonBody]}

NextConc ==
    \E c \in Calls :
        \/ \E o \in ConcOps : \E a \in ConcArgs(o) : Start(c, o, a)
        \/ Abort(c)
        \/ \E resp \in ConcResponses : FetchResolve(c, resp)
        \/ \E e \in TransportErrors : FetchReject(c, e)
        \/ FetchAbort(c)
        \/ JsonResolve(c)
        \/ JsonReject(c)
        \/ JsonAbort(c)

SpecConc == Init /\ [][NextConc]_vars

----------------------------------------------------------------------------
(* Properties *)

Done(c) == pc[c] = "done"
Issued(c) == pc[c] # "idle"
Answered(c) == response[c] # None

\* the call got a response other than 204 and decoded its body to `payload` unaborted
Decoded(c) ==
    /\ Done(c) /\ Answered(c) /\ ~signal[c]
    /\ response[c].status # 204
    /\ IsJson(response[c].body)
PayloadOf(c) == Parse(response[c].body)
ErrorMessage(v) == [type |-> "object", message |-> v]

\* C1 as stated: for every operation and every status code, a response body that
\* contains an `error` field ends the call rejected with that field's value as message.
C1_AsStated ==
    \A c \in Calls :
        (/\ Done(c) /\ Answered(c) /\ ~signal[c]
         /\ IsJson(response[c].body)
         /\ PayloadOf(c) # Null
         /\ PayloadOf(c).error # Undefined)
        => outcome[c] = Rejected(ErrorMessage(PayloadOf(c).error))

\* C1 amended: for every operation and every status code other than 204, a decoded
\* body whose `error` field is truthy ends the call rejected with a result whose
\* message is that field's value; the call never resolves with data in that case.
C1_ErrorFieldRejects ==
    \A c \in Calls :
        (Decoded(c) /\ PayloadOf(c) # Null /\ Truthy(PayloadOf(c).error))
        => outcome[c] = Rejected(ErrorMessage(PayloadOf(c).error))

C1_Witness ==
    \E c \in Calls :
        /\ Decoded(c) /\ op[c] = "listReservations" /\ response[c].status = 200
        /\ PayloadOf(c) # Null /\ Truthy(PayloadOf(c).error)
        /\ PayloadOf(c).data # Undefined
        /\ outcome[c].state = "rejected"

\* C2 as stated: a call whose signal fired before it completed resolves with the
\* fallback: [] for listReservations, {} for the writes and for readReservation
\* and readTableByReservation.
C2_AsStated ==
    \A c \in Calls :
        (Done(c) /\ signal[c]) =>
            /\ outcome[c].state = "resolved"
            /\ op[c] = "listReservations" => outcome[c].value = EmptyArray
            /\ op[c] \in Writes \cup {"readReservation", "readTableByReservation"}
                  => outcome[c].value = EmptyObject

\* C2 amended: a call whose signal fired before it completed (while awaiting the
\* response or while decoding the body) resolves, never rejects, with the fallback
\* the operation gives fetchJson: [] for listReservations, {} for the six writes,
\* undefined for the four reads, which give none.
C2_AbortResolvesFallback ==
    \A c \in Calls :
        (Done(c) /\ signal[c]) =>
            /\ outcome[c].state = "resolved"
            /\ op[c] = "listReservations" => outcome[c].value = EmptyArray
            /\ op[c] \in Writes => outcome[c].value = EmptyObject
            /\ op[c] \in Reads => outcome[c].value = Undefined

C2_Witness ==
    \E c \in Calls :
        /\ Done(c) /\ signal[c] /\ jsonCalled[c]
        /\ op[c] = "readReservation"
        /\ outcome[c] = Resolved(Undefined)

\* C3: for every operation, listReservations with its .then chain included, a
\* response with status 204 yields a resolved empty result (null), whatever the
\* body holds, and response.json() is never called on it.
C3_NoContentResolves ==
    \A c \in Calls :
        (Answered(c) /\ response[c].status = 204) =>
            /\ Done(c)
            /\ outcome[c] = Resolved(Null)
            /\ ~jsonCalled[c]

C3_Witness ==
    \E c \in Calls :
        /\ Done(c) /\ op[c] = "listReservations"
        /\ Answered(c) /\ response[c].status = 204
        /\ IsJson(response[c].body) /\ PayloadOf(c) # Null /\ Truthy(PayloadOf(c).error)

\* C4: a failure caught by fetchJson that is not an abort (network failure, body
\* that is not JSON) ends the call rejected with the very error that was raised,
\* and that error's stack is on the console by then; it never becomes the
\* fallback or a resolved result.
C4_FailureLoggedAndRethrown ==
    /\ \A c \in Calls :
        (Done(c) /\ raised[c] # None /\ raised[c].name # "AbortError") =>
            /\ outcome[c] = Rejected(raised[c])
            /\ \E i \in DOMAIN log : log[i] = raised[c].stack
    /\ Len(log) = Cardinality({c \in Calls : raised[c] # None /\ raised[c].name # "AbortError"})

C4_Witness ==
    \E c \in Calls :
        /\ Done(c) /\ op[c] = "listReservations"
        /\ raised[c] = SyntaxErr
        /\ outcome[c] = Rejected(SyntaxErr)

\* what the operation table asks of each operation's request
TableMethod(o) ==
    CASE o = "createReservation" -> "POST"
      [] o = "createTable" -> "POST"
      [] o = "seatReservation" -> "PUT"
      [] o = "updateReservation" -> "PUT"
      [] o = "updateReservationStatus" -> "PUT"
      [] o = "finishTable" -> "DELETE"
      [] o \in Reads \cup {"listReservations"} -> "GET"

TablePath(o, a) ==
    CASE o \in {"listReservations", "searchByPhone", "createReservation"} -> <<"reservations">>
      [] o \in {"listTables", "createTable"} -> <<"tables">>
      [] o = "readReservation" -> <<"reservations", ToString(a.reservation_id)>>
      [] o = "updateReservation" ->
            <<"reservations", TemplateStr(a.reservation, "reservation_id")>>
      [] o = "updateReservationStatus" ->
            <<"reservations", ToString(a.reservation_id), "status">>
      [] o = "readTableByReservation" -> <<"tables", "seated", ToString(a.reservation_id)>>
      [] o \in {"seatReservation", "finishTable"} ->
            <<"tables", TemplateStr(a.table, "table_id"), "seat">>

TableData(o, a) ==
    CASE o \in {"createReservation", "updateReservation"} -> a.reservation
      [] o = "createTable" -> a.table
      [] o = "seatReservation" -> [reservation_id |-> a.reservation_id]
      [] o = "updateReservationStatus" -> [status |-> a.status]

TableQuery(o, a) ==
    CASE o = "listReservations" ->
            [i \in DOMAIN a.params |->
                <<a.params[i][1],
                  IF a.params[i][2].type = "number" THEN ToString(a.params[i][2].n)
                  ELSE a.params[i][2].chars>>]
      [] o = "searchByPhone" -> << <<"mobile_number", a.mobile_number>> >>
      [] OTHER -> <<>>

Bodiless == Reads \cup {"listReservations", "finishTable"}

\* C5: every request an operation issues has the method, path and body of the
\* operation table, and createReservation resolves with the decoded `data` field.
C5_RequestMatchesTable ==
    \A c \in Calls :
        /\ Issued(c) =>
            /\ request[c].method = TableMethod(op[c])
            /\ request[c].url.base = API_BASE_URL
            /\ request[c].url.path = TablePath(op[c], arg[c])
            /\ request[c].url.query = TableQuery(op[c], arg[c])
            /\ op[c] \in Bodiless => ~request[c].body.present
            /\ op[c] \notin Bodiless =>
                  /\ request[c].body.present
                  /\ IsJson(request[c].body)
                  /\ DOMAIN Parse(request[c].body) = {"data"}
                  /\ Parse(request[c].body).data = TableData(op[c], arg[c])
        /\ (/\ Decoded(c) /\ op[c] = "createReservation"
            /\ PayloadOf(c) # Null /\ ~Truthy(PayloadOf(c).error))
           => outcome[c] = Resolved(PayloadOf(c).data)

C5_Witness ==
    \E c \in Calls :
        /\ Issued(c) /\ op[c] = "finishTable" /\ arg[c].table = SavedTable
        /\ request[c].method = "DELETE"
        /\ request[c].url.path = <<"tables", "5", "seat">>
        /\ ~request[c].body.present

StandardHeaders == << <<"Content-Type", "application/json">> >>

\* C6 as stated: every operation attaches the standard headers to its request.
C6_AsStated ==
    \A c \in Calls : Issued(c) => request[c].headers = StandardHeaders

\* C6 amended: listReservations and the six write operations attach the standard
\* headers (Content-Type: application/json) to the request they issue; searchByPhone,
\* readReservation, listTables and readTableByReservation send theirs without.
C6_HeadersWhereNamed ==
    \A c \in Calls :
        Issued(c) =>
            /\ op[c] \in Writes \cup {"listReservations"} => request[c].headers = StandardHeaders
            /\ op[c] \in Reads => request[c].headers = <<>>

C6_Witness ==
    \E c \in Calls :
        /\ Issued(c) /\ op[c] = "searchByPhone" /\ request[c].headers = <<>>

Creates == {"createReservation", "createTable"}
Submitted(c) == IF op[c] = "createReservation" THEN arg[c].reservation ELSE arg[c].table
CarriesId(r) == DOMAIN r \cap {"reservation_id", "table_id", "id"} # {}
ValueCarriesId(v) == v.type = "object" /\ "fields" \in DOMAIN v /\ CarriesId(v.fields)

\* C7 as stated: no creation request is sent for a record that carries an
\* identifier, and a record a creation resolves with carries one.
C7_AsStated ==
    \A c \in Calls :
        (Issued(c) /\ op[c] \in Creates) =>
            /\ ~CarriesId(Submitted(c))
            /\ (Done(c) /\ outcome[c].state = "resolved") => ValueCarriesId(outcome[c].value)

\* C7 amended: the client makes no identifier check: createReservation and
\* createTable send the POST with the record exactly as given, identifier or not,
\* and a creation that resolves from a decoded body resolves with that body's
\* `data` field as it is, identifier or not.
C7_NoIdentifierCheck ==
    \A c \in Calls :
        (Issued(c) /\ op[c] \in Creates) =>
            /\ request[c].method = "POST"
            /\ request[c].body = Stringify([data |-> Submitted(c)])
            /\ (/\ Decoded(c) /\ PayloadOf(c) # Null /\ ~Truthy(PayloadOf(c).error))
               => outcome[c] = Resolved(PayloadOf(c).data)

C7_Witness ==
    \E c \in Calls :
        /\ Decoded(c) /\ op[c] = "createReservation"
        /\ CarriesId(Submitted(c))
        /\ CarriesId(Parse(request[c].body).data)
        /\ outcome[c] = Resolved(Undefined)

\* C8: listReservations issues a GET to /reservations with every entry of params
\* as a query parameter, and every reservation of the sequence it resolves with has
\* had its date reformatted and its time reformatted.
C8_AsStated ==
    \A c \in Calls :
        (Issued(c) /\ op[c] = "listReservations") =>
            /\ request[c].method = "GET"
            /\ request[c].url.path = <<"reservations">>
            /\ request[c].url.query = TableQuery(op[c], arg[c])
            /\ (Done(c) /\ outcome[c].state = "resolved" /\ outcome[c].value.type = "array")
               => \A i \in DOMAIN outcome[c].value.items :
                     /\ outcome[c].value.items[i].reservation_date.rest = ""
                     /\ outcome[c].value.items[i].reservation_time.rest = ""

TransportFailure(c) == IF raised[c] \in TransportErrors THEN raised[c] ELSE None

OwnState(c) == <<pc[c], op[c], arg[c], request[c], signal[c], response[c],
                 jsonCalled[c], raised[c], outcome[c]>>

C10_OwnInputsDecide ==
    /\ \A c \in Calls : raised[c] = AbortErr => signal[c]
    /\ \A c, d \in Calls :
        (/\ Done(c) /\ Done(d)
         /\ op[c] = op[d] /\ arg[c] = arg[d]
         /\ response[c] = response[d] /\ TransportFailure(c) = TransportFailure(d)
         /\ signal[c] = signal[d])
        => outcome[c] = outcome[d]

C10_OneCallPerStep ==
    /\ headers' = headers
    /\ API_BASE_URL' = API_BASE_URL
    /\ \E c \in Calls : \A d \in Calls \ {c} : OwnState(d)' = OwnState(d)
    /\ \A c \in Calls : Done(c) => (Done(c)' /\ outcome'[c] = outcome[c])

\* C10: with calls in flight together, each call's outcome is decided by its own
\* arguments, response and signal alone; a step of one call (its abort and its
\* failure included) leaves every other call as it was, a settled outcome never
\* changes, and no step changes the headers object or the base URL.
C10_CallsIndependent == []C10_OwnInputsDecide /\ [][C10_OneCallPerStep]_vars

C10_Witness ==
    \E c, d \in Calls :
        /\ c # d /\ op[c] = op[d] /\ arg[c] = arg[d]
        /\ Done(c) /\ signal[c] /\ raised[c] = AbortErr
        /\ pc[d] = "json" /\ ~signal[d]

====
